---- MODULE Spec2Model ----
(***************************************************************************)
(* A model of the two audio splitters:                                     *)
(*   src/split_audio_by_silence.py  (silence-driven splitter)              *)
(*   src/split_audio_by_csv.py      (CSV-driven splitter)                  *)
(*                                                                         *)
(* Time.  The silence splitter computes with seconds as floats.  The model *)
(* counts time in ticks, TicksPerMs ticks to the millisecond, so that      *)
(* round(x, 3) (rounding to the millisecond) and the 0.01 s filter act on  *)
(* values that are not whole milliseconds.  Arithmetic is exact: the       *)
(* binary representation error of Python floats is not modelled.           *)
(*                                                                         *)
(* Strings.  File-name stems and CSV cells are sequences of one-character  *)
(* strings, so that slicing, suffix tests, strip() and float() are         *)
(* computed character by character.                                        *)
(***************************************************************************)
EXTENDS Integers, Sequences, FiniteSets, TLC

VARIABLES
    pc,            \* position of the running program / function
    prog,          \* "silence" | "csv" | "none": which script runs
    starts, ends,  \* silence_start / silence_end stamps found in ffmpeg's stderr
    silences,      \* detect_silences' result
    duration,      \* probe_duration's result
    segments_all,  \* build_segments' result
    rows,          \* the rows csv.reader yields for the timestamp CSV
    segments_raw,  \* parse_timestamps' result
    min_seg,       \* args.min_seg
    segments,      \* the filtered list that is exported
    ts_stem,       \* ts_path.stem
    dir,           \* ts_path.parent.iterdir(), in iteration order
    input_path,    \* the resolved input media file (None when not found)
    dry_run,       \* args.dry_run
    input_arg,     \* args.input (None when absent)
    path_exists,   \* result of the first Path.exists() test of main()
    input_exists,  \* result of input_path.exists() for an --input path
    ffmpeg, ffprobe, \* shutil.which(...) is not None
    tools_checked, \* check_tools() has run
    outdir_created,\* outdir.mkdir(...) has run
    csv_written,   \* write_timestamps(...) has run
    calls,         \* the subprocess.run calls made so far, in order
    plan,          \* the segments printed as 'planned' (dry run)
    idx,           \* number of segments the export loop has consumed
    exit_code      \* <<>> while running, else <<the process exit status>>

vars == <<pc, prog, starts, ends, silences, duration, segments_all, rows,
          segments_raw, min_seg, segments, ts_stem, dir, input_path, dry_run,
          input_arg, path_exists, input_exists, ffmpeg, ffprobe,
          tools_checked, outdir_created, csv_written, calls, plan, idx,
          exit_code>>

\* Python's None where a path is expected: an entry that is no file.
None == [stem |-> <<>>, ext |-> "None", is_file |-> FALSE]

Max(a, b) == IF a >= b THEN a ELSE b

Min(a, b) == IF a <= b THEN a ELSE b

(***************************************************************************)
(* Bounds of the model.                                                    *)
(***************************************************************************)
\* Resolution of the time grid: ticks per millisecond.
TicksPerMs == 5

\* Longest silence list given to build_segments.
MaxSil == 2

\* Longest list of silence_start (and of silence_end) stamps.
MaxMarks == 3

\* Most rows of the timestamp CSV.
MaxRows == 2

\* Most directory entries beside the timestamp CSV itself.
MaxDir == 2

(***************************************************************************)
(* Time arithmetic of split_audio_by_silence.py                            *)
(***************************************************************************)
\* The filter constant 0.01 s of build_segments, in milliseconds.
MinDurMs == 10

MinDurTicks == MinDurMs * TicksPerMs

\* round(x, 3): to the nearest millisecond; an exact tie goes to the even
\* millisecond (Python rounds the decimal value of the float half-to-even).
round3(t) ==
    LET q == t \div TicksPerMs
        r == t % TicksPerMs
    IN  IF 2 * r < TicksPerMs THEN q * TicksPerMs
        ELSE IF 2 * r > TicksPerMs THEN (q + 1) * TicksPerMs
        ELSE IF q % 2 = 0 THEN q * TicksPerMs
        ELSE (q + 1) * TicksPerMs

\* The time stamps the inputs are drawn from (ticks): below, at and above the
\* 10 ms filter, on and off whole milliseconds.
Times ==
    {0, 2, 3, MinDurTicks, MinDurTicks + 1, MinDurTicks + 3,
     2 * MinDurTicks + 3, 4 * MinDurTicks}

Intervals == {p \in Times \X Times : p[1] <= p[2]}

\* Lists of at most n intervals with non-decreasing starts and end >= start.
RECURSIVE IntervalLists(_)
IntervalLists(n) ==
    IF n = 0 THEN {<<>>}
    ELSE LET shorter == IntervalLists(n - 1)
         IN  shorter \cup
             {Append(l, p) : l \in {x \in shorter : Len(x) = n - 1},
                             p \in Intervals}

NonDecreasingStarts(l) ==
    \A a \in 1..Len(l) - 1 : l[a][1] <= l[a + 1][1]

SilenceLists == {l \in IntervalLists(MaxSil) : NonDecreasingStarts(l)}

(***************************************************************************)
(* build_segments                                                          *)
(***************************************************************************)
\* Mutant: the cursor is set to e instead of max(cur, e).
RECURSIVE build_loop_no_max(_, _, _, _)
build_loop_no_max(sil, n, cur, segs) ==
    IF n > Len(sil) THEN <<cur, segs>>
    ELSE LET s == sil[n][1]
             e == sil[n][2]
         IN  build_loop_no_max(sil, n + 1, e,
                        IF s > cur THEN Append(segs, <<cur, s>>) ELSE segs)

\* The for loop of build_segments from its n-th silence on: <<cur, segments>>.
RECURSIVE build_loop(_, _, _, _)
build_loop(sil, n, cur, segs) ==
    IF n > Len(sil) THEN <<cur, segs>>
    ELSE LET s == sil[n][1]
             e == sil[n][2]
         IN  build_loop(sil, n + 1, Max(cur, e),
                        IF s > cur THEN Append(segs, <<cur, s>>) ELSE segs)

\* Mutant: the final segment (cur, duration) is never appended.
raw_segments_no_tail(sil, dur) == build_loop(sil, 1, 0, <<>>)[2]

\* The list `segments` of build_segments before its return statement.
raw_segments(sil, dur) ==
    LET r == build_loop(sil, 1, 0, <<>>)
    IN  IF dur > r[1] THEN Append(r[2], <<r[1], dur>>) ELSE r[2]

\* Mutant: the filter keeps a segment of exactly 0.01 s.
keep_segment_ge(seg) == seg[2] - seg[1] >= MinDurTicks

\* The filter `b - a > 0.01` of the return statement.
keep_segment(seg) == seg[2] - seg[1] > MinDurTicks

round_segments(segs) ==
    [n \in 1..Len(segs) |-> <<round3(segs[n][1]), round3(segs[n][2])>>]

build_segments(sil, dur) ==
    round_segments(SelectSeq(raw_segments(sil, dur), keep_segment))

(***************************************************************************)
(* detect_silences: the pairing of the start and end stamps                *)
(***************************************************************************)
\* Mutant: an end equal to the start is skipped.
end_matches_gt(e, s) == e > s

\* The test `ends[j] >= starts[i]`.
end_matches(e, s) == e >= s

\* The while loop of detect_silences; i and j count from 0 as in the source.
RECURSIVE detect_loop(_, _, _, _, _)
detect_loop(ss, es, i, j, out) ==
    IF i < Len(ss) /\ j < Len(es)
    THEN IF end_matches(es[j + 1], ss[i + 1])
         THEN detect_loop(ss, es, i + 1, j + 1,
                          Append(out, <<ss[i + 1], es[j + 1]>>))
         ELSE detect_loop(ss, es, i, j + 1, out)
    ELSE out

detect_silences(ss, es) == detect_loop(ss, es, 0, 0, <<>>)

\* The stamps the start and end lists are drawn from.
Stamps == {0, 1, 2}

RECURSIVE StampLists(_)
StampLists(n) ==
    IF n = 0 THEN {<<>>}
    ELSE LET shorter == StampLists(n - 1)
         IN  shorter \cup
             {Append(l, x) : l \in {y \in shorter : Len(y) = n - 1},
                             x \in Stamps}

(***************************************************************************)
(* parse_timestamps and the filter of split_audio_by_csv.py                *)
(* A row is the list of cells csv.reader yields for one line; a cell is a  *)
(* sequence of characters.                                                 *)
(***************************************************************************)
\* float() yields <<value>>, or <<>> when it raises ValueError.
ValueError == <<>>

Digits == {"0", "1", "2", "3", "4", "5", "6", "7", "8", "9"}

DigitValue(c) ==
    CASE c = "0" -> 0 [] c = "1" -> 1 [] c = "2" -> 2 [] c = "3" -> 3
      [] c = "4" -> 4 [] c = "5" -> 5 [] c = "6" -> 6 [] c = "7" -> 7
      [] c = "8" -> 8 [] c = "9" -> 9

\* str.strip(): leading and trailing blanks removed.
RECURSIVE strip(_)
strip(s) ==
    IF s = <<>> THEN s
    ELSE IF Head(s) = " " THEN strip(Tail(s))
    ELSE IF s[Len(s)] = " " THEN strip(SubSeq(s, 1, Len(s) - 1))
    ELSE s

RECURSIVE decimal(_)
decimal(s) ==
    IF s = <<>> THEN 0
    ELSE 10 * decimal(SubSeq(s, 1, Len(s) - 1)) + DigitValue(s[Len(s)])

\* float(cell.strip()) on unsigned whole numbers: the value of a non-empty
\* digit string, ValueError for anything else.  (Python's float also reads
\* signs, fractions, exponents, inf and nan, which the cells of the model
\* do not contain.)
parse_float(cell) ==
    LET s == strip(cell)
    IN  IF s # <<>> /\ \A n \in DOMAIN s : s[n] \in Digits
        THEN <<decimal(s)>>
        ELSE ValueError

\* Mutant: a row with more than two columns is skipped too.
row_too_short_ne(row) == Len(row) # 2

\* The tests `not row` and `len(row) < 2`.
row_too_short(row) == row = <<>> \/ Len(row) < 2

\* The for loop of parse_timestamps from its n-th row on.
RECURSIVE parse_loop(_, _, _)
parse_loop(rs, n, out) ==
    IF n > Len(rs) THEN out
    ELSE IF row_too_short(rs[n]) THEN parse_loop(rs, n + 1, out)
    ELSE LET s == parse_float(rs[n][1])
             e == parse_float(rs[n][2])
         IN  IF s = ValueError \/ e = ValueError
             THEN parse_loop(rs, n + 1, out)
             ELSE parse_loop(rs, n + 1, Append(out, <<s[1], e[1]>>))

parse_timestamps(rs) == parse_loop(rs, 1, <<>>)

\* Mutant: the test e > s is left out.
keep_timestamp_no_gt(seg, m) == seg[2] - seg[1] >= m

\* The filter `e > s and (e - s) >= args.min_seg` of main.
keep_timestamp(seg, m) == seg[2] > seg[1] /\ seg[2] - seg[1] >= m

filter_timestamps(raw, m) == SelectSeq(raw, LAMBDA seg : keep_timestamp(seg, m))

\* The cells of the model's CSV files: empty, not a number, numbers with and
\* without blanks around them.
CsvCells == {<<>>, <<"x">>, <<"1">>, <<" ", "2">>, <<"3", " ">>}

\* Rows of zero, one and two cells, and rows with a third column.
CsvRows ==
    {<<>>} \cup {<<a>> : a \in CsvCells}
           \cup {<<a, b>> : a \in CsvCells, b \in CsvCells}
           \cup {<<a, b, <<"x">>>> : a \in {<<"1">>, <<"x">>},
                                     b \in {<<" ", "2">>, <<"3", " ">>}}

RECURSIVE RowLists(_)
RowLists(n) ==
    IF n = 0 THEN {<<>>}
    ELSE LET shorter == RowLists(n - 1)
         IN  shorter \cup
             {Append(l, r) : l \in {y \in shorter : Len(y) = n - 1},
                             r \in CsvRows}

\* The values of --min-seg.
MinSegs == {0, 1, 2}

(***************************************************************************)
(* infer_audio_path                                                        *)
(* A directory entry is [stem, ext, is_file]; a stem is a sequence of      *)
(* characters, an extension a string as written in the file name.          *)
(***************************************************************************)
\* The set `exts` of recognized media extensions.
exts == {".mp3", ".wav", ".m4a", ".flac", ".aac", ".ogg", ".wma", ".mp4",
         ".mkv", ".webm"}

\* str.lower() on the extensions of the model.
lower(x) ==
    CASE x = ".WAV" -> ".wav"
      [] x = ".MP3" -> ".mp3"
      [] OTHER -> x

\* The suffix '_segments' tested by base.endswith.
SegmentsSuffix == <<"_", "s", "e", "g", "m", "e", "n", "t", "s">>

\* The number of characters base[:-10] removes.
StripCount == 10

\* str.endswith
ends_with(s, suf) ==
    /\ Len(s) >= Len(suf)
    /\ SubSeq(s, Len(s) - Len(suf) + 1, Len(s)) = suf

\* s[:-n] for n > 0
drop_last(s, n) == SubSeq(s, 1, Max(Len(s) - n, 0))

\* The value of `base` after the if statement.
candidate_base(stem) ==
    IF ends_with(stem, SegmentsSuffix) THEN drop_last(stem, StripCount)
    ELSE stem

recognized(p) == p.is_file /\ lower(p.ext) \in exts

\* The for loop over iterdir() from its n-th entry on, and the final test.
RECURSIVE infer_loop(_, _, _, _)
infer_loop(d, n, base, candidates) ==
    IF n > Len(d)
    THEN IF Len(candidates) = 1 THEN candidates[1] ELSE None
    ELSE IF recognized(d[n])
         THEN IF d[n].stem = base THEN d[n]
              ELSE infer_loop(d, n + 1, base, Append(candidates, d[n]))
         ELSE infer_loop(d, n + 1, base, candidates)

infer_audio_path(stem, d) == infer_loop(d, 1, candidate_base(stem), <<>>)

StemA == <<"a">>

StemAb == <<"a", "b">>

\* The stems of the timestamp CSV: with and without the suffix.
TsStems == {StemAb \o SegmentsSuffix, StemA \o SegmentsSuffix, StemAb, StemA}

\* Entries beside the CSV: media files in lower and upper case, a text file
\* and a subdirectory whose name ends in a media extension.
OtherEntries ==
    {[stem |-> s, ext |-> x, is_file |-> TRUE] :
        s \in {StemA, StemAb}, x \in {".mp3", ".WAV", ".txt"}}
    \cup {[stem |-> StemAb, ext |-> ".wav", is_file |-> FALSE]}

CsvEntry(stem) == [stem |-> stem, ext |-> ".csv", is_file |-> TRUE]

\* Sequences of exactly n distinct entries of OtherEntries.
RECURSIVE DistinctLists(_)
DistinctLists(n) ==
    IF n = 0 THEN {<<>>}
    ELSE UNION {{Append(l, p) :
                    p \in OtherEntries \ {l[a] : a \in DOMAIN l}} :
                l \in DistinctLists(n - 1)}

InsertAt(l, n, x) == SubSeq(l, 1, n - 1) \o <<x>> \o SubSeq(l, n, Len(l))

\* What iterdir() can yield for the CSV's directory: the CSV itself and at
\* most MaxDir other entries, in any order.
Listings(stem) ==
    UNION {{InsertAt(l, n, CsvEntry(stem)) : n \in 1..Len(l) + 1} :
           l \in UNION {DistinctLists(m) : m \in 0..MaxDir}}

(***************************************************************************)
(* Initial values of the variables a specification does not use.           *)
(***************************************************************************)
IdleSilence ==
    /\ starts = <<>> /\ ends = <<>> /\ silences = <<>>
    /\ duration = 0 /\ segments_all = <<>>

IdleCsv ==
    /\ rows = <<>> /\ segments_raw = <<>>
    /\ ts_stem = <<>> /\ dir = <<>> /\ input_path = None

IdleMain ==
    /\ prog = "none" /\ min_seg = 0 /\ segments = <<>>
    /\ dry_run = FALSE /\ input_arg = None
    /\ path_exists = TRUE /\ input_exists = TRUE
    /\ ffmpeg = TRUE /\ ffprobe = TRUE
    /\ tools_checked = FALSE /\ outdir_created = FALSE /\ csv_written = FALSE
    /\ calls = <<>> /\ plan = <<>> /\ idx = 0 /\ exit_code = <<>>

silenceVars == <<starts, ends, silences, duration, segments_all>>

csvVars == <<rows, segments_raw, ts_stem, dir, input_path>>

mainVars == <<prog, min_seg, segments, dry_run, input_arg, path_exists,
              input_exists, ffmpeg, ffprobe, tools_checked, outdir_created,
              csv_written, calls, plan, idx, exit_code>>

(***************************************************************************)
(* SpecBuild: build_segments applied to every silence list of the grid.    *)
(***************************************************************************)
InitBuild ==
    /\ pc = "build"
    /\ silences \in SilenceLists
    /\ duration \in Times \ {0}
    /\ starts = <<>> /\ ends = <<>> /\ segments_all = <<>>
    /\ IdleCsv /\ IdleMain

BuildSegments ==
    /\ pc = "build"
    /\ segments_all' = build_segments(silences, duration)
    /\ pc' = "built"
    /\ UNCHANGED <<starts, ends, silences, duration, csvVars, mainVars>>

NextBuild == BuildSegments

SpecBuild == InitBuild /\ [][NextBuild]_vars

(***************************************************************************)
(* Claims about build_segments (checked under SpecBuild).                  *)
(* An instant of [0, duration] is a cell c, the tick [c, c + 1).           *)
(***************************************************************************)
Cells == 0..(duration - 1)

SegCount(c) ==
    Cardinality({n \in DOMAIN segments_all :
                    segments_all[n][1] <= c /\ c < segments_all[n][2]})

SilCount(c) ==
    Cardinality({n \in DOMAIN silences :
                    silences[n][1] <= c /\ c < silences[n][2]})

SortedNonOverlapping(l) ==
    \A a \in 1..Len(l) - 1 : l[a][2] <= l[a + 1][1]

SilenceStarts == {silences[n][1] : n \in DOMAIN silences}

SilenceEnds == {silences[n][2] : n \in DOMAIN silences}

\* The whole cell lies within half a millisecond of a silence boundary or of
\* the end of the file: what rounding to the millisecond can move.
NearBoundary(c) ==
    \E p \in {duration} \cup SilenceStarts \cup SilenceEnds :
        2 * (p - c) <= TicksPerMs /\ 2 * (c + 1 - p) <= TicksPerMs

\* The cell lies in a stretch of at most 0.01 s between the end of a silence
\* (or 0) and the start of a silence (or the end of the file).
InDroppedGap(c) ==
    \E p \in {0} \cup SilenceEnds, q \in {duration} \cup SilenceStarts :
        p <= c /\ c < q /\ q - p <= MinDurTicks

\* C1 as stated: for a sorted, non-overlapping silence list the segments and
\* the silences, clipped to [0, duration], cover [0, duration] exactly: every
\* instant lies in exactly one of them.
C1_ExactCover ==
    (pc = "built" /\ SortedNonOverlapping(silences)) =>
        \A c \in Cells : SegCount(c) + SilCount(c) = 1

\* C1 amended: for a sorted, non-overlapping silence list no instant lies in
\* two segments; an instant in both a segment and a silence lies within half
\* a millisecond of a boundary (rounding); an instant in neither lies in a
\* stretch of at most 0.01 s between silences (its segment is dropped) or
\* within half a millisecond of a boundary (rounding).
C1_CoverUpToFilterAndRounding ==
    (pc = "built" /\ SortedNonOverlapping(silences)) =>
        \A c \in Cells :
            /\ SegCount(c) <= 1
            /\ (SegCount(c) = 1 /\ SilCount(c) = 1) => NearBoundary(c)
            /\ (SegCount(c) = 0 /\ SilCount(c) = 0) =>
                   (InDroppedGap(c) \/ NearBoundary(c))

\* C1 witness: two non-overlapping silences, a kept segment, a stretch that
\* was dropped by the 0.01 s filter and an instant lost to rounding alone.
C1_Witness ==
    /\ pc = "built" /\ SortedNonOverlapping(silences)
    /\ Len(silences) = 2 /\ Len(segments_all) >= 1
    /\ \E c \in Cells : SegCount(c) = 0 /\ SilCount(c) = 0 /\ InDroppedGap(c)
    /\ \E c \in Cells : SegCount(c) + SilCount(c) # 1 /\ ~InDroppedGap(c)

\* C2 as stated: with no silence, build_segments returns exactly (0, duration).
C2_WholeFile ==
    (pc = "built" /\ silences = <<>>) =>
        segments_all = << <<0, duration>> >>

\* C2 amended: with no silence, build_segments returns exactly one segment,
\* (0, round(duration, 3)), when duration > 0.01 s, and no segment otherwise.
C2_WholeFileRounded ==
    (pc = "built" /\ silences = <<>>) =>
        segments_all = IF duration > MinDurTicks
                       THEN << <<0, round3(duration)>> >>
                       ELSE <<>>

\* C2 witness: no silence, one segment whose end differs from the duration.
C2_Witness ==
    /\ pc = "built" /\ silences = <<>>
    /\ Len(segments_all) = 1
    /\ segments_all[1][2] # duration

Overlap(seg, sil) == Min(seg[2], sil[2]) - Max(seg[1], sil[1])

Ordered(segs) ==
    \A n \in 1..Len(segs) - 1 :
        /\ segs[n][1] < segs[n + 1][1]
        /\ segs[n][2] <= segs[n + 1][1]

\* C10 as stated: every segment (a, b) has 0 <= a < b <= duration, segments
\* are strictly increasing with start >= previous end, and no segment
\* overlaps the interior of a silence.
C10_WithinFile ==
    pc = "built" =>
        /\ \A n \in DOMAIN segments_all :
               /\ 0 <= segments_all[n][1]
               /\ segments_all[n][1] < segments_all[n][2]
               /\ segments_all[n][2] <= duration
        /\ Ordered(segments_all)
        /\ \A n \in DOMAIN segments_all, k \in DOMAIN silences :
               Overlap(segments_all[n], silences[k]) <= 0

\* C10 amended: every segment (a, b) has 0 <= a < b and b at most the later
\* of duration and the last silence start, rounded to the millisecond;
\* segments are strictly increasing with start >= previous end; no segment
\* overlaps a silence by more than half a millisecond.
C10_WithinRoundedBounds ==
    pc = "built" =>
        /\ \A n \in DOMAIN segments_all :
               /\ 0 <= segments_all[n][1]
               /\ segments_all[n][1] < segments_all[n][2]
               /\ \E p \in {duration} \cup SilenceStarts :
                      segments_all[n][2] <= round3(p)
        /\ Ordered(segments_all)
        /\ \A n \in DOMAIN segments_all, k \in DOMAIN silences :
               2 * Overlap(segments_all[n], silences[k]) <= TicksPerMs

\* C10 witness: two segments, one of them ending after the end of the file,
\* and a segment that overlaps a silence by the rounding error.
C10_Witness ==
    /\ pc = "built" /\ Len(segments_all) = 2
    /\ \E n \in DOMAIN segments_all : segments_all[n][2] > duration
    /\ \E n \in DOMAIN segments_all, k \in DOMAIN silences :
           Overlap(segments_all[n], silences[k]) > 0

(***************************************************************************)
(* SpecDetect: detect_silences applied to every pair of stamp lists.       *)
(***************************************************************************)
InitDetect ==
    /\ pc = "detect"
    /\ starts \in StampLists(MaxMarks)
    /\ ends \in StampLists(MaxMarks)
    /\ silences = <<>> /\ duration = 0 /\ segments_all = <<>>
    /\ IdleCsv /\ IdleMain

DetectSilences ==
    /\ pc = "detect"
    /\ silences' = detect_silences(starts, ends)
    /\ pc' = "detected"
    /\ UNCHANGED <<starts, ends, duration, segments_all, csvVars, mainVars>>

NextDetect == DetectSilences

SpecDetect == InitDetect /\ [][NextDetect]_vars

\* The position in `ends` of the end paired with the k-th start: the earliest
\* end after the one paired with the previous start whose stamp is >= the
\* start; Len(ends) + 1 when there is none.
RECURSIVE PairedEnd(_)
PairedEnd(k) ==
    LET from == IF k = 1 THEN 1 ELSE PairedEnd(k - 1) + 1
        cand == {j \in from..Len(ends) : ends[j] >= starts[k]}
    IN  IF cand = {} THEN Len(ends) + 1
        ELSE CHOOSE j \in cand : \A x \in cand : j <= x

NPairs == Cardinality({k \in 1..Len(starts) : PairedEnd(k) <= Len(ends)})

\* C7: detect_silences pairs each start, in order, with the earliest end not
\* yet consumed whose stamp is >= the start; skipped ends are never paired; a
\* start without such an end yields no interval; so every pair has
\* end >= start.
C7_EarliestEndPairing ==
    pc = "detected" =>
        /\ silences = [k \in 1..NPairs |-> <<starts[k], ends[PairedEnd(k)]>>]
        /\ \A k \in DOMAIN silences : silences[k][2] >= silences[k][1]

\* C7 witness: a pair was made with an end equal to its start, an end was
\* skipped and a start was left without an end.
C7_Witness ==
    /\ pc = "detected"
    /\ Len(silences) >= 1 /\ Len(silences) < Len(starts)
    /\ \E k \in DOMAIN silences : PairedEnd(k) > k
    /\ \E k \in DOMAIN silences : silences[k][1] = silences[k][2]

(***************************************************************************)
(* SpecParse: parse_timestamps and the filter applied to every CSV of the  *)
(* model (lines 69-70 of split_audio_by_csv.py).                           *)
(***************************************************************************)
InitParse ==
    /\ pc = "parse"
    /\ rows \in RowLists(MaxRows)
    /\ min_seg \in MinSegs
    /\ segments_raw = <<>> /\ segments = <<>>
    /\ ts_stem = <<>> /\ dir = <<>> /\ input_path = None
    /\ IdleSilence
    /\ prog = "none" /\ dry_run = FALSE /\ input_arg = None
    /\ path_exists = TRUE /\ input_exists = TRUE
    /\ ffmpeg = TRUE /\ ffprobe = TRUE
    /\ tools_checked = FALSE /\ outdir_created = FALSE /\ csv_written = FALSE
    /\ calls = <<>> /\ plan = <<>> /\ idx = 0 /\ exit_code = <<>>

ParseAndFilter ==
    /\ pc = "parse"
    /\ segments_raw' = parse_timestamps(rows)
    /\ segments' = filter_timestamps(parse_timestamps(rows), min_seg)
    /\ pc' = "parsed"
    /\ UNCHANGED <<silenceVars, rows, min_seg, ts_stem, dir, input_path, prog,
                   dry_run, input_arg, path_exists, input_exists, ffmpeg,
                   ffprobe, tools_checked, outdir_created, csv_written, calls,
                   plan, idx, exit_code>>

NextParse == ParseAndFilter

SpecParse == InitParse /\ [][NextParse]_vars

IsNumber(cell) == parse_float(cell) # ValueError

\* A row the claim says is exported: two numeric columns, end > start and
\* end - start >= m.
ValidRow(r, m) ==
    /\ Len(r) >= 2
    /\ IsNumber(r[1]) /\ IsNumber(r[2])
    /\ parse_float(r[2])[1] > parse_float(r[1])[1]
    /\ parse_float(r[2])[1] - parse_float(r[1])[1] >= m

ValidRowNumbers == {n \in DOMAIN rows : ValidRow(rows[n], min_seg)}

\* The k-th valid row, in file order.
KthValidRow(k) ==
    CHOOSE n \in ValidRowNumbers :
        Cardinality({x \in ValidRowNumbers : x < n}) = k - 1

\* C9: the list to export is exactly the rows, in file order, whose first two
\* columns parse as numbers with end > start and end - start >= min_seg;
\* every other row is skipped and changes nothing else.
C9_ExportedRows ==
    pc = "parsed" =>
        segments =
            [k \in 1..Cardinality(ValidRowNumbers) |->
                <<parse_float(rows[KthValidRow(k)][1])[1],
                  parse_float(rows[KthValidRow(k)][2])[1]>>]

\* C9 witness: a malformed row is followed by a row that is exported.
C9_Witness ==
    /\ pc = "parsed" /\ Len(rows) = 2
    /\ ~(Len(rows[1]) >= 2 /\ IsNumber(rows[1][1]) /\ IsNumber(rows[1][2]))
    /\ Len(segments) = 1 /\ min_seg > 0

(***************************************************************************)
(* SpecInfer: infer_audio_path applied to every directory of the model.    *)
(***************************************************************************)
InitInfer ==
    /\ pc = "infer"
    /\ ts_stem \in TsStems
    /\ dir \in Listings(ts_stem)
    /\ input_path = None
    /\ rows = <<>> /\ segments_raw = <<>>
    /\ IdleSilence /\ IdleMain

InferAudioPath ==
    /\ pc = "infer"
    /\ input_path' = infer_audio_path(ts_stem, dir)
    /\ pc' = "inferred"
    /\ UNCHANGED <<silenceVars, rows, segments_raw, ts_stem, dir, mainVars>>

NextInfer == InferAudioPath

SpecInfer == InitInfer /\ [][NextInfer]_vars

\* The candidate base name as the claims define it: the CSV's stem without a
\* trailing '_segments'.
StemWithoutSuffix(stem) ==
    IF ends_with(stem, SegmentsSuffix)
    THEN SubSeq(stem, 1, Len(stem) - Len(SegmentsSuffix))
    ELSE stem

\* The recognized media files of the directory with the given stem.
MediaNamed(stem) ==
    {n \in DOMAIN dir : recognized(dir[n]) /\ dir[n].stem = stem}

MediaFiles == {n \in DOMAIN dir : recognized(dir[n])}

\* C3: for a CSV named X_segments.csv whose directory holds a recognized
\* media file with base name X (one such file, and possibly other media
\* files), infer_audio_path returns the file named X.
C3_SuffixStripped ==
    (/\ pc = "inferred"
     /\ ends_with(ts_stem, SegmentsSuffix)
     /\ Cardinality(MediaNamed(StemWithoutSuffix(ts_stem))) = 1) =>
        \E n \in MediaNamed(StemWithoutSuffix(ts_stem)) : input_path = dir[n]

\* C4, for CSV names that do not end in '_segments' (the candidate base name
\* is then the stem itself): the result is the name-matching media file if
\* there is exactly one, otherwise the sole media file if there is exactly
\* one, otherwise None; in particular None when two media files share the
\* candidate base name.
C4_UnambiguousOnly ==
    (pc = "inferred" /\ ~ends_with(ts_stem, SegmentsSuffix)) =>
        IF Cardinality(MediaNamed(ts_stem)) = 1
        THEN \E n \in MediaNamed(ts_stem) : input_path = dir[n]
        ELSE IF Cardinality(MediaFiles) = 1
        THEN \E n \in MediaFiles : input_path = dir[n]
        ELSE input_path = None

(***************************************************************************)
(* The two main() functions, one action per statement group.               *)
(***************************************************************************)
\* Mutant: the check fails only when both executables are missing.
tools_missing_both(have_ffmpeg, have_ffprobe) ==
    ~have_ffmpeg /\ ~have_ffprobe

\* The test of check_tools (the same in both scripts).
tools_missing(have_ffmpeg, have_ffprobe) == ~have_ffmpeg \/ ~have_ffprobe

\* Mutant: only a process killed by a signal counts as failed.
export_failed_signal(rc) == rc < 0

\* The test `r.returncode != 0` of export_segment (the same in both scripts).
export_failed(rc) == rc # 0

\* Exit statuses of the ffmpeg and ffprobe subprocesses.
ReturnCodes == {0, 1, 2}

\* The record of one export_segment call: which segment, and ffmpeg's status.
ExportCall(n, seg, rc) ==
    [cmd |-> "ffmpeg_export", seg |-> n, start |-> seg[1], end |-> seg[2],
     rc |-> rc]

Exit(code) == pc' = "exit" /\ exit_code' = <<code>>

\* Sample inputs of the CSV splitter: CSV files with 0, 2 and 3 valid rows.
Row12 == << <<"1">>, <<" ", "2">> >>

Row13 == << <<"1">>, <<"3", " ">> >>

Row23 == << <<" ", "2">>, <<"3", " ">>, <<"x">> >>

SampleCsvs ==
    {<<>>, <<Row12, << <<"x">>, <<"1">> >>, Row13>>, <<Row12, Row13, Row23>>}

MediaAb == [stem |-> StemAb, ext |-> ".mp3", is_file |-> TRUE]

MediaA == [stem |-> StemA, ext |-> ".WAV", is_file |-> TRUE]

\* Sample directories of the CSV ab_segments.csv: no media file, one, two.
SampleDirs ==
    {<<CsvEntry(StemAb \o SegmentsSuffix)>>,
     <<CsvEntry(StemAb \o SegmentsSuffix), MediaAb>>,
     <<MediaA, CsvEntry(StemAb \o SegmentsSuffix), MediaAb>>}

\* Sample outputs of the silence detector and of ffprobe (ticks).
SampleStarts == {<<>>, <<2 * MinDurTicks, 6 * MinDurTicks>>}

SampleEnds == {<<>>, <<3 * MinDurTicks, 8 * MinDurTicks>>}

SampleDurations == {10 * MinDurTicks}

InitMainCsv ==
    /\ prog = "csv" /\ pc = "csv_start"
    /\ path_exists \in BOOLEAN
    /\ rows \in SampleCsvs
    /\ min_seg \in {0, 2}
    /\ dry_run \in BOOLEAN
    /\ input_arg \in {None, MediaAb}
    /\ input_exists \in IF input_arg = None THEN {TRUE} ELSE BOOLEAN
    /\ ts_stem = StemAb \o SegmentsSuffix
    /\ dir \in SampleDirs
    /\ IdleSilence

InitMainSilence ==
    /\ prog = "silence" /\ pc = "sil_start"
    /\ path_exists \in BOOLEAN
    /\ min_seg \in {0, 3 * MinDurTicks}
    /\ dry_run = FALSE /\ input_arg = MediaAb /\ input_exists = TRUE
    /\ rows = <<>> /\ ts_stem = <<>> /\ dir = <<>>
    /\ IdleSilence

InitMain ==
    /\ InitMainCsv \/ InitMainSilence
    /\ ffmpeg \in BOOLEAN /\ ffprobe \in BOOLEAN
    /\ segments_raw = <<>> /\ segments = <<>> /\ input_path = None
    /\ tools_checked = FALSE /\ outdir_created = FALSE /\ csv_written = FALSE
    /\ calls = <<>> /\ plan = <<>> /\ idx = 0 /\ exit_code = <<>>

inputVars == <<prog, rows, min_seg, ts_stem, dir, dry_run, input_arg,
               path_exists, input_exists, ffmpeg, ffprobe>>

effectVars == <<tools_checked, outdir_created, csv_written, calls, plan>>

(* split_audio_by_csv.py, main *)

\* lines 64-67: the timestamp file must exist.
CsvCheckTimestamps ==
    /\ prog = "csv" /\ pc = "csv_start"
    /\ IF path_exists
       THEN pc' = "csv_parse" /\ UNCHANGED exit_code
       ELSE Exit(1)
    /\ UNCHANGED <<inputVars, effectVars, silenceVars, segments_raw, segments,
                   input_path, idx>>

\* lines 69-73: parse and filter.
CsvParse ==
    /\ prog = "csv" /\ pc = "csv_parse"
    /\ segments_raw' = parse_timestamps(rows)
    /\ segments' = filter_timestamps(parse_timestamps(rows), min_seg)
    /\ pc' = "csv_dry_check"
    /\ UNCHANGED <<inputVars, effectVars, silenceVars, input_path, idx,
                   exit_code>>

\* lines 75-77: a dry run without --input returns here.
CsvDryRunReturn ==
    /\ prog = "csv" /\ pc = "csv_dry_check"
    /\ IF dry_run /\ input_arg = None
       THEN Exit(0)
       ELSE pc' = "csv_resolve" /\ UNCHANGED exit_code
    /\ UNCHANGED <<inputVars, effectVars, silenceVars, segments_raw, segments,
                   input_path, idx>>

\* lines 79-85: --input, or the inferred file; it must be found and exist.
CsvResolveInput ==
    /\ prog = "csv" /\ pc = "csv_resolve"
    /\ input_path' = IF input_arg # None THEN input_arg
                     ELSE infer_audio_path(ts_stem, dir)
    /\ IF input_path' = None THEN Exit(1)
       ELSE IF input_arg # None /\ ~input_exists THEN Exit(1)
       ELSE pc' = "csv_tools" /\ UNCHANGED exit_code
    /\ UNCHANGED <<inputVars, effectVars, silenceVars, segments_raw, segments,
                   idx>>

\* lines 87-88: check_tools(), unless this is a dry run.
CsvCheckTools ==
    /\ prog = "csv" /\ pc = "csv_tools"
    /\ IF dry_run
       THEN pc' = "csv_mkdir" /\ UNCHANGED <<tools_checked, exit_code>>
       ELSE /\ tools_checked' = TRUE
            /\ IF tools_missing(ffmpeg, ffprobe) THEN Exit(1)
               ELSE pc' = "csv_mkdir" /\ UNCHANGED exit_code
    /\ UNCHANGED <<inputVars, outdir_created, csv_written, calls, plan,
                   silenceVars, segments_raw, segments, input_path, idx>>

\* lines 90-97: create the output directory, start the loop.
CsvMkdir ==
    /\ prog = "csv" /\ pc = "csv_mkdir"
    /\ outdir_created' = TRUE
    /\ idx' = 0
    /\ pc' = "csv_loop"
    /\ UNCHANGED <<inputVars, tools_checked, csv_written, calls, plan,
                   silenceVars, segments_raw, segments, input_path,
                   exit_code>>

\* lines 98-102, 106: one iteration of the loop in a dry run.
CsvPlanSegment ==
    /\ prog = "csv" /\ pc = "csv_loop"
    /\ idx < Len(segments) /\ dry_run
    /\ plan' = Append(plan, segments[idx + 1])
    /\ idx' = idx + 1
    /\ UNCHANGED <<pc, inputVars, tools_checked, outdir_created, csv_written,
                   calls, silenceVars, segments_raw, segments, input_path,
                   exit_code>>

\* lines 98-100, 103-106 and export_segment: one iteration that exports.
CsvExportSegment ==
    /\ prog = "csv" /\ pc = "csv_loop"
    /\ idx < Len(segments) /\ ~dry_run
    /\ \E rc \in ReturnCodes :
        /\ calls' = Append(calls, ExportCall(idx + 1, segments[idx + 1], rc))
        /\ IF export_failed(rc)
           THEN Exit(1) /\ UNCHANGED idx
           ELSE idx' = idx + 1 /\ UNCHANGED <<pc, exit_code>>
    /\ UNCHANGED <<inputVars, tools_checked, outdir_created, csv_written,
                   plan, silenceVars, segments_raw, segments, input_path>>

\* the loop is exhausted: main returns.
CsvReturn ==
    /\ prog = "csv" /\ pc = "csv_loop"
    /\ idx = Len(segments)
    /\ Exit(0)
    /\ UNCHANGED <<inputVars, effectVars, silenceVars, segments_raw, segments,
                   input_path, idx>>

(* split_audio_by_silence.py, main *)

\* lines 74-77: the input file must exist.
SilCheckInput ==
    /\ prog = "silence" /\ pc = "sil_start"
    /\ IF path_exists
       THEN pc' = "sil_tools" /\ input_path' = input_arg
                              /\ UNCHANGED exit_code
       ELSE Exit(1) /\ UNCHANGED input_path
    /\ UNCHANGED <<inputVars, effectVars, silenceVars, segments_raw, segments,
                   idx>>

\* line 79: check_tools().
SilCheckTools ==
    /\ prog = "silence" /\ pc = "sil_tools"
    /\ tools_checked' = TRUE
    /\ IF tools_missing(ffmpeg, ffprobe) THEN Exit(1)
       ELSE pc' = "sil_probe" /\ UNCHANGED exit_code
    /\ UNCHANGED <<inputVars, outdir_created, csv_written, calls, plan,
                   silenceVars, segments_raw, segments, input_path, idx>>

\* line 80 and probe_duration: run ffprobe; a failure or empty output exits.
SilProbeDuration ==
    /\ prog = "silence" /\ pc = "sil_probe"
    /\ \E rc \in ReturnCodes, d \in SampleDurations \cup {0} :
        \* d = 0 stands for an empty stdout
        /\ calls' = Append(calls, [cmd |-> "ffprobe", rc |-> rc])
        /\ IF rc # 0 \/ d = 0
           THEN Exit(1) /\ UNCHANGED duration
           ELSE duration' = d /\ pc' = "sil_detect" /\ UNCHANGED exit_code
    /\ UNCHANGED <<inputVars, tools_checked, outdir_created, csv_written,
                   plan, starts, ends, silences, segments_all, segments_raw,
                   segments, input_path, idx>>

\* line 81 and detect_silences: run ffmpeg's silencedetect (its exit status
\* is not tested), read the stamps from its stderr and pair them.
SilDetectSilences ==
    /\ prog = "silence" /\ pc = "sil_detect"
    /\ \E rc \in ReturnCodes, ss \in SampleStarts, es \in SampleEnds :
        /\ calls' = Append(calls, [cmd |-> "ffmpeg_silencedetect", rc |-> rc])
        /\ starts' = ss /\ ends' = es
        /\ silences' = detect_silences(ss, es)
    /\ pc' = "sil_build"
    /\ UNCHANGED <<inputVars, tools_checked, outdir_created, csv_written,
                   plan, duration, segments_all, segments_raw, segments,
                   input_path, idx, exit_code>>

\* lines 82-83: the segments, and those of at least --min-seg.
SilBuildSegments ==
    /\ prog = "silence" /\ pc = "sil_build"
    /\ segments_all' = build_segments(silences, duration)
    /\ segments' = SelectSeq(build_segments(silences, duration),
                             LAMBDA seg : seg[2] - seg[1] >= min_seg)
    /\ pc' = "sil_mkdir"
    /\ UNCHANGED <<inputVars, effectVars, starts, ends, silences, duration,
                   segments_raw, input_path, idx, exit_code>>

\* lines 85-92: create the output directory.
SilMkdir ==
    /\ prog = "silence" /\ pc = "sil_mkdir"
    /\ outdir_created' = TRUE
    /\ pc' = "sil_write"
    /\ UNCHANGED <<inputVars, tools_checked, csv_written, calls, plan,
                   silenceVars, segments_raw, segments, input_path, idx,
                   exit_code>>

\* lines 94-98 and write_timestamps: write the CSV, start the loop.
SilWriteTimestamps ==
    /\ prog = "silence" /\ pc = "sil_write"
    /\ csv_written' = TRUE
    /\ idx' = 0
    /\ pc' = "sil_loop"
    /\ UNCHANGED <<inputVars, tools_checked, outdir_created, calls, plan,
                   silenceVars, segments_raw, segments, input_path,
                   exit_code>>

\* lines 99-104 and export_segment: one iteration of the loop.
SilExportSegment ==
    /\ prog = "silence" /\ pc = "sil_loop"
    /\ idx < Len(segments)
    /\ \E rc \in ReturnCodes :
        /\ calls' = Append(calls, ExportCall(idx + 1, segments[idx + 1], rc))
        /\ IF export_failed(rc)
           THEN Exit(1) /\ UNCHANGED idx
           ELSE idx' = idx + 1 /\ UNCHANGED <<pc, exit_code>>
    /\ UNCHANGED <<inputVars, tools_checked, outdir_created, csv_written,
                   plan, silenceVars, segments_raw, segments, input_path>>

\* the loop is exhausted: main returns.
SilReturn ==
    /\ prog = "silence" /\ pc = "sil_loop"
    /\ idx = Len(segments)
    /\ Exit(0)
    /\ UNCHANGED <<inputVars, effectVars, silenceVars, segments_raw, segments,
                   input_path, idx>>

NextMain ==
    \/ CsvCheckTimestamps \/ CsvParse \/ CsvDryRunReturn \/ CsvResolveInput
    \/ CsvCheckTools \/ CsvMkdir \/ CsvPlanSegment \/ CsvExportSegment
    \/ CsvReturn
    \/ SilCheckInput \/ SilCheckTools \/ SilProbeDuration
    \/ SilDetectSilences \/ SilBuildSegments \/ SilMkdir
    \/ SilWriteTimestamps \/ SilExportSegment \/ SilReturn

SpecMain == InitMain /\ [][NextMain]_vars

Exports == SelectSeq(calls, LAMBDA c : c.cmd = "ffmpeg_export")

\* C5 (its frame part): in a dry run of the CSV splitter no subprocess is
\* run, the presence of the tools is not checked, and no output directory
\* and no file is created.
C5_DryRunTouchesNothing ==
    (prog = "csv" /\ dry_run) =>
        /\ calls = <<>>
        /\ ~tools_checked
        /\ ~outdir_created
        /\ ~csv_written

\* C6: in both splitters the exports are made one at a time in list order,
\* each segment at most once; once an export fails the program has exited
\* with a non-zero status and no later export is made.
C6_FirstFailureIsFatal ==
    /\ Len(Exports) <= Len(segments)
    /\ \A n \in DOMAIN Exports :
           /\ Exports[n].seg = n
           /\ Exports[n].start = segments[n][1]
           /\ Exports[n].end = segments[n][2]
    /\ \A n \in 1..Len(Exports) - 1 : Exports[n].rc = 0
    /\ (Exports # <<>> /\ Exports[Len(Exports)].rc # 0) =>
           (pc = "exit" /\ exit_code # <<>> /\ exit_code # <<0>>)
    /\ (pc = "exit" /\ exit_code = <<0>> /\ ~dry_run /\ outdir_created) =>
           Len(Exports) = Len(segments)

\* C6 witness: the second of three segments failed to export; the first was
\* exported once, the third never, and the program has exited.
C6_Witness ==
    /\ Len(segments) = 3 /\ Len(Exports) = 2
    /\ Exports[1].rc = 0 /\ Exports[2].rc # 0
    /\ pc = "exit"

\* C8: in a run that is not a dry run, no output directory is created, no
\* CSV written and no subprocess run unless check_tools has found both
\* executables; with one missing the program exits with a non-zero status.
C8_ToolsCheckedFirst ==
    ~dry_run =>
        /\ (outdir_created \/ csv_written \/ calls # <<>>) =>
               (tools_checked /\ ffmpeg /\ ffprobe)
        /\ (pc = "exit" /\ ~(ffmpeg /\ ffprobe)) =>
               (exit_code # <<>> /\ exit_code # <<0>>)

\* C8 witness: ffprobe alone is missing; check_tools ran and the program
\* exited before doing anything else.
C8_Witness ==
    /\ ~dry_run /\ ffmpeg /\ ~ffprobe
    /\ tools_checked /\ pc = "exit" /\ exit_code = <<1>>
    /\ ~outdir_created /\ calls = <<>>

====
